---------------------------- MODULE Spec2Model ----------------------------
(***************************************************************************)
(* The Discv5 service core (src/src/service/service.ts): request registry, *)
(* multi-packet NODES reassembly, keep-alive timers, lookups and the       *)
(* start/stop lifecycle, as a state machine.  The collaborators the file   *)
(* imports (routing table, lookup engine, session service, message         *)
(* helpers) are modelled from their description in spec.md.                *)
(***************************************************************************)
EXTENDS Integers, Sequences, FiniteSets, TLC

(***************************************************************************)
(* Bounds of the model                                                     *)
(***************************************************************************)
\* bucket capacity k (16 in the constructor), scaled down so a bucket fills
BucketSize == 4
\* ENR sequence numbers range over 1 .. MaxSeq
MaxSeq == 2
\* request ids are allocated 1, 2, ... MaxReqs, never reused
MaxReqs == 2
\* interval handles that can be armed at once
MaxTimers == 2
\* stands for 2 ** 32 in findNode's wrap test
LookupIdLimit == 2
\* lookups alive at once
MaxLive == 1

(***************************************************************************)
(* Program constants                                                       *)
(***************************************************************************)
pingDelay == 300000
parallelism == 3
numResults == 16
MaxNodesResponses == 5
MAX_PACKET_SIZE == 1280
MAX_RECORD_SIZE == 300
PacketOverhead == 92

(***************************************************************************)
(* Node ids, records, distances                                            *)
(***************************************************************************)
\* node ids are 4-bit numbers; every remote node is at log2 distance 4 of ours
LocalId == 0
Remotes == 8 .. 13
NodeIds == {LocalId} \cup Remotes
Distances == 1 .. 4
Handles == 1 .. MaxTimers
ReqIds == 1 .. MaxReqs
\* id carried by a requestFailed that answers no registered request
\* (a request sent through sendRequestUnknownEnr, a failed handshake)
UnknownReqId == 0
LookupIds == 1 .. LookupIdLimit
Seqs == 1 .. MaxSeq
ENRs == [nodeId : NodeIds, seq : Seqs]
NoENR == [nodeId |-> -1, seq |-> 0]
Enr(n, q) == [nodeId |-> n, seq |-> q]
NoEntry == [nodeId |-> -1, seq |-> 0, status |-> "None"]
EntryOf(enr, status) == [nodeId |-> enr.nodeId, seq |-> enr.seq, status |-> status]
ValueOf(entry) == [nodeId |-> entry.nodeId, seq |-> entry.seq]

RECURSIVE Xor(_, _)
Xor(a, b) ==
  IF a = 0 THEN b
  ELSE IF b = 0 THEN a
  ELSE (((a % 2) + (b % 2)) % 2) + (2 * Xor(a \div 2, b \div 2))

RECURSIVE BitLength(_)
BitLength(x) == IF x = 0 THEN 0 ELSE 1 + BitLength(x \div 2)

\* position of the highest 1-bit of a XOR b; 0 iff a = b
log2Distance(a, b) == BitLength(Xor(a, b))

\* the distance a lookup asks a peer for
findNodeLog2Distance(target, peerId) == log2Distance(target, peerId)

RECURSIVE SelectSeq2(_, _)
\* the entries of seq whose nodeId is in keep, in order
SelectSeq2(seq, keep) ==
  IF seq = <<>> THEN <<>>
  ELSE IF Head(seq).nodeId \in keep
       THEN <<Head(seq)>> \o SelectSeq2(Tail(seq), keep)
       ELSE SelectSeq2(Tail(seq), keep)

Ids(seq) == {seq[i].nodeId : i \in 1 .. Len(seq)}

(***************************************************************************)
(* KademliaRoutingTable: buckets[d] is ordered most-recently-seen last,    *)
(* pending[d] is the bucket's single pending slot.                         *)
(***************************************************************************)
EmptyTable ==
  [buckets |-> [d \in Distances |-> <<>>], pending |-> [d \in Distances |-> NoEntry]]

BucketIndex(id) == log2Distance(LocalId, id)

InBucket(kb, id) ==
  /\ BucketIndex(id) \in Distances
  /\ id \in Ids(kb.buckets[BucketIndex(id)])

InPending(kb, id) ==
  /\ BucketIndex(id) \in Distances
  /\ kb.pending[BucketIndex(id)].nodeId = id

BucketEntry(kb, id) ==
  LET b == kb.buckets[BucketIndex(id)]
  IN b[CHOOSE i \in 1 .. Len(b) : b[i].nodeId = id]

getValue(kb, id) ==
  IF InBucket(kb, id) THEN ValueOf(BucketEntry(kb, id)) ELSE NoENR

getWithPending(kb, id) ==
  IF InBucket(kb, id) THEN BucketEntry(kb, id)
  ELSE IF InPending(kb, id) THEN kb.pending[BucketIndex(id)]
  ELSE NoEntry

\* the result of a table mutation: the table, add's return value, and the
\* events the table emitted ("pendingEviction" / "appliedEviction")
KbResult(kb, ok, events) == [kb |-> kb, ok |-> ok, events |-> events]
KbEvent(name, enr, other) == [name |-> name, enr |-> enr, other |-> other]

kbAdd(kb, enr, status) ==
  LET d == BucketIndex(enr.nodeId)
      b == kb.buckets[d]
  IN IF d \notin Distances \/ InBucket(kb, enr.nodeId) \/ InPending(kb, enr.nodeId)
     THEN KbResult(kb, FALSE, <<>>)
     ELSE IF Len(b) < BucketSize
     THEN KbResult([kb EXCEPT !.buckets[d] = Append(b, EntryOf(enr, status))], TRUE, <<>>)
     ELSE IF kb.pending[d] = NoEntry
     THEN KbResult([kb EXCEPT !.pending[d] = EntryOf(enr, status)], FALSE,
                   <<KbEvent("pendingEviction", ValueOf(Head(b)), NoENR)>>)
     ELSE KbResult(kb, FALSE, <<>>)

kbUpdateValue(kb, enr) ==
  LET d == BucketIndex(enr.nodeId)
  IN IF InBucket(kb, enr.nodeId)
     THEN [kb EXCEPT !.buckets[d] =
             [i \in 1 .. Len(@) |->
                IF @[i].nodeId = enr.nodeId THEN EntryOf(enr, @[i].status) ELSE @[i]]]
     ELSE IF InPending(kb, enr.nodeId)
     THEN [kb EXCEPT !.pending[d] = EntryOf(enr, @.status)]
     ELSE kb

\* A status change of the bucket's head while a candidate is pending settles
\* the eviction: Connected discards the candidate, Disconnected evicts the
\* head and promotes the candidate.  A node seen Connected moves last.
kbUpdateStatus(kb, id, status) ==
  LET d == BucketIndex(id)
      b == kb.buckets[d]
      e == BucketEntry(kb, id)
      rest == SelectSeq2(b, Ids(b) \ {id})
      cand == kb.pending[d]
  IN IF InBucket(kb, id)
     THEN IF cand # NoEntry /\ Head(b).nodeId = id /\ status = "Disconnected"
          THEN KbResult([kb EXCEPT !.buckets[d] = Append(rest, cand),
                                   !.pending[d] = NoEntry],
                        FALSE,
                        <<KbEvent("appliedEviction", ValueOf(cand), ValueOf(e))>>)
          ELSE IF status = "Connected"
          THEN KbResult([kb EXCEPT !.buckets[d] = Append(rest, [e EXCEPT !.status = status]),
                                   !.pending[d] =
                                      IF Head(b).nodeId = id THEN NoEntry ELSE @],
                        FALSE, <<>>)
          ELSE KbResult([kb EXCEPT !.buckets[d] =
                           [i \in 1 .. Len(@) |->
                              IF @[i].nodeId = id THEN [@[i] EXCEPT !.status = status]
                              ELSE @[i]]],
                        FALSE, <<>>)
     ELSE IF InPending(kb, id)
     THEN KbResult([kb EXCEPT !.pending[d].status = status], FALSE, <<>>)
     ELSE KbResult(kb, FALSE, <<>>)

kbUpdate(kb, enr, status) == kbUpdateStatus(kbUpdateValue(kb, enr), enr.nodeId, status)

valuesOfDistance(kb, d) ==
  IF d \in Distances
  THEN [i \in 1 .. Len(kb.buckets[d]) |-> ValueOf(kb.buckets[d][i])]
  ELSE <<>>

TableIds(kb) == UNION {Ids(kb.buckets[d]) : d \in Distances}

RECURSIVE SortByDistance(_, _)
\* the ids of set, nearest to target first (XOR distance)
SortByDistance(set, target) ==
  IF set = {} THEN <<>>
  ELSE LET m == CHOOSE x \in set : \A y \in set : Xor(x, target) <= Xor(y, target)
       IN <<m>> \o SortByDistance(set \ {m}, target)

Take(seq, n) == IF Len(seq) <= n THEN seq ELSE SubSeq(seq, 1, n)

nearest(kb, target, n) ==
  LET ids == Take(SortByDistance(TableIds(kb), target), n)
  IN [i \in 1 .. Len(ids) |-> getValue(kb, ids[i])]


(***************************************************************************)
(* State of the service (the fields of class Discv5) and of the session     *)
(* service it talks to, and the history the properties speak about.        *)
(***************************************************************************)
VARIABLES
  started,              \* this.started
  attached,             \* how many times the six handlers are attached to their sources
  suspended,            \* the start()/stop() call awaiting the session service: "none", "start", "stop"
  kbuckets,             \* this.kbuckets
  activeLookups,        \* this.activeLookups: lookup id -> lookup (NoLookup: no entry)
  nextLookupId,         \* this.nextLookupId
  activeRequests,       \* this.activeRequests: request id -> [request, lookupId] (NoReq: no entry)
  activeNodesResponses, \* this.activeNodesResponses: request id -> INodesResponse (NoAcc: no entry)
  connectedPeers,       \* this.connectedPeers: node id -> interval handle (0: no entry)
  timers,               \* interval handle -> the node it pings (0: not armed)
  nextReqId,            \* the next fresh request id
  accepted,             \* session service: request id -> destination of an accepted, unanswered request (-1: none)
  session,              \* session service: the nodes with an active session
  respDone,             \* request id -> number of responses whose kind-specific effect ran (up to 2)
  failDone,             \* request id -> number of failures processed for it (up to 2)
  nodesGot              \* request id -> the NODES packets received for a FINDNODE request so far

vars == <<started, attached, suspended, kbuckets, activeLookups, nextLookupId, activeRequests,
          activeNodesResponses, connectedPeers, timers, nextReqId, accepted, session,
          respDone, failDone, nodesGot>>

NoReq == [type |-> "NONE", distance |-> -1, lookupId |-> 0]
\* a PING carries no distance: request.distance is undefined
NoDistance == -1
Request(type, distance, lookupId) == [type |-> type, distance |-> distance, lookupId |-> lookupId]
NoAcc == [count |-> 0, enrs |-> <<>>]
NoLookup == [target |-> -1, peers |-> [n \in Remotes |-> "absent"], untrustedEnrs |-> <<>>]

Out(ev, node, id, n, enrs) == [ev |-> ev, node |-> node, id |-> id, n |-> n, enrs |-> enrs]

\* The state a handler works on.  out lists, in order, what the handler sent
\* (requests, responses), emitted (events) and called (Discovered, the lookup's
\* onSuccess and onFailure); ovf is set when it needs a request id past MaxReqs
\* or an interval handle past MaxTimers.
Cur ==
  [started |-> started, attached |-> attached, kbuckets |-> kbuckets,
   activeLookups |-> activeLookups, nextLookupId |-> nextLookupId,
   activeRequests |-> activeRequests, activeNodesResponses |-> activeNodesResponses,
   connectedPeers |-> connectedPeers, timers |-> timers, nextReqId |-> nextReqId,
   accepted |-> accepted, out |-> <<>>, respDone |-> respDone, failDone |-> failDone,
   ovf |-> FALSE]

Commit(t) ==
  /\ ~t.ovf
  /\ started' = t.started
  /\ attached' = t.attached
  /\ kbuckets' = t.kbuckets
  /\ activeLookups' = t.activeLookups
  /\ nextLookupId' = t.nextLookupId
  /\ activeRequests' = t.activeRequests
  /\ activeNodesResponses' = t.activeNodesResponses
  /\ connectedPeers' = t.connectedPeers
  /\ timers' = t.timers
  /\ nextReqId' = t.nextReqId
  /\ accepted' = t.accepted
  /\ respDone' = t.respDone
  /\ failDone' = t.failDone

Emit(s, rec) == [s EXCEPT !.out = Append(@, rec)]

GetRequest(s, id) == IF id \in ReqIds THEN s.activeRequests[id] ELSE NoReq
GetNodesResponse(s, id) == IF id \in ReqIds THEN s.activeNodesResponses[id] ELSE NoAcc
GetLookup(s, lid) == IF lid \in LookupIds THEN s.activeLookups[lid] ELSE NoLookup
Bump(n) == IF n < 2 THEN n + 1 ELSE n
NoteResponse(s, id) == IF id \in ReqIds THEN [s EXCEPT !.respDone[id] = Bump(@)] ELSE s
NoteFailure(s, id) == IF id \in ReqIds THEN [s EXCEPT !.failDone[id] = Bump(@)] ELSE s

(***************************************************************************)
(* sendRequest, sendPing.  fail is the set of destinations for which the   *)
(* session service's send throws during this handler.                      *)
(***************************************************************************)
\* sendRequest registering the request before it is handed to the session
\* service, so that a throwing send leaves the entry behind
sendRequestRegisteringFirst(s, nodeId, type, distance, lookupId, fail) ==
  LET dstEnr == getValue(s.kbuckets, nodeId)
      id == s.nextReqId
  IN IF dstEnr = NoENR THEN s
     ELSE IF id \notin ReqIds THEN [s EXCEPT !.ovf = TRUE]
     ELSE IF nodeId \in fail
     THEN [s EXCEPT !.nextReqId = id + 1,
                    !.activeRequests[id] = Request(type, distance, lookupId)]
     ELSE [s EXCEPT !.out = Append(@, Out(type, nodeId, id, distance, <<dstEnr>>)),
                    !.accepted[id] = nodeId,
                    !.nextReqId = id + 1,
                    !.activeRequests[id] = Request(type, distance, lookupId)]

sendRequest(s, nodeId, type, distance, lookupId, fail) ==
  LET dstEnr == getValue(s.kbuckets, nodeId)
      id == s.nextReqId
  IN IF dstEnr = NoENR THEN s
     ELSE IF nodeId \in fail THEN s
     ELSE IF id \notin ReqIds THEN [s EXCEPT !.ovf = TRUE]
     ELSE [s EXCEPT !.out = Append(@, Out(type, nodeId, id, distance, <<dstEnr>>)),
                    !.accepted[id] = nodeId,
                    !.nextReqId = id + 1,
                    !.activeRequests[id] = Request(type, distance, lookupId)]

sendPing(s, nodeId, fail) == sendRequest(s, nodeId, "PING", NoDistance, 0, fail)

onPendingEviction(s, enr, fail) == sendPing(s, enr.nodeId, fail)

onAppliedEviction(s, inserted, evicted) ==
  Emit(s, Out("enrAdded", inserted.nodeId, 0, 0, <<inserted, evicted>>))

RECURSIVE DispatchTableEvent(_, _, _, _)
\* a table event reaches the core's listener once per attachment
DispatchTableEvent(s, e, times, fail) ==
  IF times = 0 THEN s
  ELSE DispatchTableEvent(
         IF e.name = "pendingEviction" THEN onPendingEviction(s, e.enr, fail)
         ELSE onAppliedEviction(s, e.enr, e.other),
         e, times - 1, fail)

\* the table after a mutation, and the listeners run for what it emitted
ApplyTable(s, res, fail) ==
  LET s1 == [s EXCEPT !.kbuckets = res.kb]
  IN IF res.events = <<>> THEN s1
     ELSE DispatchTableEvent(s1, res.events[1], s.attached, fail)

connectionUpdated(s, nodeId, enr, newStatus, fail) ==
  IF getWithPending(s.kbuckets, nodeId) # NoEntry
  THEN IF enr # NoENR
       THEN ApplyTable(s, kbUpdate(s.kbuckets, enr, newStatus), fail)
       ELSE ApplyTable(s, kbUpdateStatus(s.kbuckets, nodeId, newStatus), fail)
  ELSE IF newStatus = "Connected" /\ enr # NoENR
  THEN LET res == kbAdd(s.kbuckets, enr, newStatus)
           s1 == ApplyTable(s, res, fail)
       IN IF res.ok THEN Emit(s1, Out("enrAdded", enr.nodeId, 0, 0, <<enr>>)) ELSE s1
  ELSE s

RECURSIVE FindUntrusted(_, _, _)
\* the first untrusted record for nodeId among the live lookups from lid on
FindUntrusted(s, nodeId, lid) ==
  IF lid \notin LookupIds THEN NoENR
  ELSE LET hits == SelectSeq2(s.activeLookups[lid].untrustedEnrs, {nodeId})
       IN IF hits # <<>> THEN hits[1] ELSE FindUntrusted(s, nodeId, lid + 1)

findEnr(s, nodeId) ==
  LET enr == getValue(s.kbuckets, nodeId)
  IN IF enr # NoENR THEN enr ELSE FindUntrusted(s, nodeId, 1)

(***************************************************************************)
(* Lookup engine.  A lookup keeps, per candidate peer, one of              *)
(* "absent", "notContacted", "waiting", "succeeded", "failed".  It probes  *)
(* the nearest candidates, at most parallelism at a time, and finishes     *)
(* when no probe is in flight and no candidate is left.  It has no timer.  *)
(***************************************************************************)
PeersIn(lk, st) == {n \in Remotes : lk.peers[n] = st}

NewLookup(target, knownClosestPeers) ==
  [target |-> target,
   peers |-> [n \in Remotes |-> IF n \in knownClosestPeers THEN "notContacted" ELSE "absent"],
   untrustedEnrs |-> <<>>]

RECURSIVE ResolveEnrs(_, _)
\* closest.map((nodeId) => this.findEnr(nodeId)).filter((enr) => enr)
ResolveEnrs(s, ids) ==
  IF ids = <<>> THEN <<>>
  ELSE LET enr == findEnr(s, Head(ids))
       IN (IF enr # NoENR THEN <<enr>> ELSE <<>>) \o ResolveEnrs(s, Tail(ids))

\* findNode's listener for "finished": resolve the promise, drop the lookup
onLookupFinished(s, lookupId, closest) ==
  LET s1 == Emit(s, Out("resolved", 0, lookupId, 0, ResolveEnrs(s, closest)))
  IN [s1 EXCEPT !.activeLookups[lookupId] = NoLookup]

RECURSIVE LookupAdvance(_, _, _)

LookupOnFailure(s, lookupId, nodeId, fail) ==
  LET lk == s.activeLookups[lookupId]
      s1 == Emit(s, Out("onFailure", nodeId, lookupId, 0, <<>>))
  IN IF lk.peers[nodeId] = "waiting"
     THEN LookupAdvance([s1 EXCEPT !.activeLookups[lookupId].peers[nodeId] = "failed"],
                        lookupId, fail)
     ELSE s1

LookupOnSuccess(s, lookupId, nodeId, closerIds, fail) ==
  LET lk == s.activeLookups[lookupId]
      s1 == Emit(s, Out("onSuccess", nodeId, lookupId, 0, <<>>))
      merged == [n \in Remotes |->
                   IF n = nodeId /\ lk.peers[n] = "waiting" THEN "succeeded"
                   ELSE IF n \in closerIds /\ lk.peers[n] = "absent" THEN "notContacted"
                   ELSE lk.peers[n]]
  IN LookupAdvance([s1 EXCEPT !.activeLookups[lookupId].peers = merged], lookupId, fail)

sendLookup(s, lookupId, target, peerId, fail) ==
  LET distance == findNodeLog2Distance(target, peerId)
  IN IF distance = 0
     THEN IF GetLookup(s, lookupId) # NoLookup
          THEN LookupOnFailure(s, lookupId, peerId, fail)
          ELSE s
     ELSE sendRequest(s, peerId, "FINDNODE", distance, lookupId, fail)

\* emits "peer" for the nearest candidates, then "finished" when nothing is left
LookupAdvance(s, lookupId, fail) ==
  LET lk == s.activeLookups[lookupId]
      waiting == PeersIn(lk, "waiting")
      cands == PeersIn(lk, "notContacted")
  IN IF lk = NoLookup \/ s.ovf THEN s
     ELSE IF Cardinality(waiting) < parallelism /\ cands # {}
     THEN LET p == SortByDistance(cands, lk.target)[1]
              s1 == [s EXCEPT !.activeLookups[lookupId].peers[p] = "waiting"]
          IN LookupAdvance(sendLookup(s1, lookupId, lk.target, p, fail), lookupId, fail)
     ELSE IF waiting = {} /\ cands = {}
     THEN onLookupFinished(s, lookupId,
            Take(SortByDistance(PeersIn(lk, "succeeded"), lk.target), numResults))
     ELSE s

LookupStart(s, lookupId, fail) == LookupAdvance(s, lookupId, fail)

(***************************************************************************)
(* discovered                                                              *)
(***************************************************************************)
RECURSIVE DiscoveredEach(_, _)
\* the first loop of discovered: one pass over others
DiscoveredEach(s, others) ==
  IF others = <<>> THEN s
  ELSE LET enr == Head(others)
           entry == getWithPending(s.kbuckets, enr.nodeId)
           s1 == Emit(s, Out("discovered", enr.nodeId, 0, 0, <<enr>>))
           s2 == IF entry # NoEntry
                 THEN IF entry.seq < enr.seq
                      THEN Emit([s1 EXCEPT !.kbuckets = kbUpdateValue(@, enr)],
                                Out("updateEnr", enr.nodeId, 0, 0, <<enr>>))
                      ELSE s1
                 ELSE Emit(s1, Out("updateEnr", enr.nodeId, 0, 0, <<enr>>))
       IN DiscoveredEach(s2, Tail(others))

\* the second loop of discovered without the test for a known node id
PushUntrustedAll(list, others) == list \o others

RECURSIVE PushUntrusted(_, _)
\* the second loop of discovered: append the records whose node id is not yet listed
PushUntrusted(list, others) ==
  IF others = <<>> THEN list
  ELSE PushUntrusted(
         IF Head(others).nodeId \in Ids(list) THEN list ELSE Append(list, Head(others)),
         Tail(others))

discovered(s, srcId, enrs, lookupId, fail) ==
  LET others == SelectSeq2(enrs, NodeIds \ {LocalId})
      s0 == Emit(s, Out("Discovered", srcId, lookupId, 0, enrs))
      s1 == DiscoveredEach(s0, others)
  IN IF lookupId # 0 /\ GetLookup(s1, lookupId) # NoLookup
     THEN LookupOnSuccess(
            [s1 EXCEPT !.activeLookups[lookupId].untrustedEnrs = PushUntrusted(@, others)],
            lookupId, srcId, Ids(others), fail)
     ELSE s1

(***************************************************************************)
(* Handlers of session-service events                                      *)
(***************************************************************************)
LocalEnr == Enr(LocalId, 1)

\* message helper: TRUE iff the response kind answers the request kind
requestMatchesResponse(reqType, respType) ==
  \/ reqType = "PING" /\ respType = "PONG"
  \/ reqType = "FINDNODE" /\ respType = "NODES"

\* sessionService.sendResponse inside try/catch: a throw is logged and dropped
sendResponse(s, srcId, type, id, total, enrs, fail) ==
  IF srcId \in fail THEN s ELSE Emit(s, Out(type, srcId, id, total, enrs))

\* the pair [state after the call, the entry returned (NoReq: undefined)]
retrieveRequest(s, id, respType) ==
  LET activeRequest == GetRequest(s, id)
  IN IF activeRequest = NoReq
     THEN [s |-> s, req |-> NoReq]
     ELSE LET s1 == [s EXCEPT !.activeRequests[id] = NoReq]
          IN IF requestMatchesResponse(activeRequest.type, respType)
             THEN [s |-> s1, req |-> NoReq]
             ELSE [s |-> s1, req |-> activeRequest]

FreeHandles(s) == {h \in Handles : s.timers[h] = 0}

\* setInterval(() => this.sendPing(nodeId), this.pingDelay): a fresh handle
\* (0: every handle of the model is armed)
setInterval(s) ==
  IF FreeHandles(s) = {} THEN 0
  ELSE CHOOSE h \in FreeHandles(s) : \A j \in FreeHandles(s) : h <= j

\* clearInterval(undefined) does nothing
clearInterval(s, handle) ==
  IF handle \in Handles THEN [s EXCEPT !.timers[handle] = 0] ELSE s

onEstablished(s, enr, fail) ==
  LET nodeId == enr.nodeId
      s1 == connectionUpdated(s, nodeId, enr, "Connected", fail)
      s2 == sendPing(s1, nodeId, fail)
      h == setInterval(s2)
  IN IF h = 0 THEN [s2 EXCEPT !.ovf = TRUE]
     ELSE [s2 EXCEPT !.connectedPeers[nodeId] = h,
                     !.timers[h] = nodeId,
                     !.out = Append(@, Out("setInterval", nodeId, h, pingDelay, <<>>))]

requestEnr(s, nodeId, fail) ==
  IF nodeId \in fail THEN s ELSE Emit(s, Out("ENRREQ", nodeId, 0, 0, <<>>))

onPing(s, srcId, id, enrSeq, fail) ==
  LET entry == getWithPending(s.kbuckets, srcId)
      s1 == IF entry # NoEntry
            THEN IF entry.seq < enrSeq THEN requestEnr(s, srcId, fail) ELSE s
            ELSE requestEnr(s, srcId, fail)
  IN sendResponse(s1, srcId, "PONG", id, LocalEnr.seq, <<>>, fail)

onPong(s, srcId, id, enrSeq, fail) ==
  LET r == retrieveRequest(s, id, "PONG")
      enr == findEnr(r.s, srcId)
  IN IF r.req = NoReq THEN r.s
     ELSE IF enr # NoENR
     THEN LET s1 == IF enr.seq < enrSeq
                    THEN sendRequest(r.s, srcId, "FINDNODE", 0, 0, fail)
                    ELSE r.s
          IN connectionUpdated(NoteResponse(s1, id), srcId, NoENR, "Connected", fail)
     ELSE r.s

nodesPerPacket == (MAX_PACKET_SIZE - PacketOverhead) \div MAX_RECORD_SIZE

RECURSIVE SendNodesPackets(_, _, _, _, _, _)
\* the for loop of onFindNode: one NODES per slice of nodesPerPacket records
SendNodesPackets(s, srcId, id, total, nodes, fail) ==
  IF nodes = <<>> THEN s
  ELSE SendNodesPackets(
         sendResponse(s, srcId, "NODES", id, total, Take(nodes, nodesPerPacket), fail),
         srcId, id, total,
         IF Len(nodes) <= nodesPerPacket THEN <<>>
         ELSE SubSeq(nodes, nodesPerPacket + 1, Len(nodes)),
         fail)

onFindNode(s, srcId, id, distance, fail) ==
  LET s1 == IF distance = 0
            THEN sendResponse(s, srcId, "NODES", id, 1, <<LocalEnr>>, fail)
            ELSE s
      nodes == valuesOfDistance(s.kbuckets, distance)
      total == (Len(nodes) + nodesPerPacket - 1) \div nodesPerPacket
  IN IF Len(nodes) = 0
     THEN sendResponse(s1, srcId, "NODES", id, 0, nodes, fail)
     ELSE SendNodesPackets(s1, srcId, id, total, nodes, fail)

onNodes(s, srcId, id, total, enrs, fail) ==
  LET r == retrieveRequest(s, id, "NODES")
      request == r.req
      lookupId == request.lookupId
      distanceRequested == request.distance
      Matches(enr) == log2Distance(enr.nodeId, LocalId) = distanceRequested
      filtered == SelectSeq(enrs, Matches)
      stored == GetNodesResponse(r.s, id)
      currentResponse == IF stored # NoAcc THEN stored ELSE [count |-> 1, enrs |-> <<>>]
      s1 == [r.s EXCEPT !.activeNodesResponses[id] = NoAcc]
  IN IF r.req = NoReq THEN r.s
     ELSE IF total > 1 /\ currentResponse.count < MaxNodesResponses
                       /\ currentResponse.count < total
     THEN [s1 EXCEPT !.activeRequests[id] = r.req,
                     !.activeNodesResponses[id] =
                        [currentResponse EXCEPT !.count = @ + 1]]
     ELSE discovered(NoteResponse(s1, id), srcId,
                     IF total > 1 THEN filtered \o currentResponse.enrs ELSE filtered,
                     lookupId, fail)

onWhoAreYouRequest(s, srcId) ==
  LET enr == findEnr(s, srcId)
  IN IF enr # NoENR
     THEN Emit(s, Out("WHOAREYOU", srcId, 0, enr.seq, <<enr>>))
     ELSE Emit(s, Out("WHOAREYOU", srcId, 0, 0, <<>>))

onRequestFailed(s, srcId, rpcId, fail) ==
  LET req == GetRequest(s, rpcId)
      nodesResponse == GetNodesResponse(s, rpcId)
      s1 == IF req # NoReq /\ req.type = "FINDNODE"
            THEN IF nodesResponse # NoAcc
                 THEN discovered(
                        NoteFailure([s EXCEPT !.activeNodesResponses[rpcId] = NoAcc], rpcId),
                        srcId, nodesResponse.enrs, req.lookupId, fail)
                 ELSE IF GetLookup(s, req.lookupId) # NoLookup
                 THEN LookupOnFailure(NoteFailure(s, rpcId), req.lookupId, srcId, fail)
                 ELSE s
            ELSE s
      s2 == connectionUpdated(s1, srcId, NoENR, "Disconnected", fail)
      s3 == clearInterval(s2, s2.connectedPeers[srcId])
  IN [s3 EXCEPT !.connectedPeers[srcId] = 0]

(***************************************************************************)
(* The application's calls                                                 *)
(***************************************************************************)
KNearest == 16

\* addEnr emitting enrAdded whatever kbuckets.add returned
addEnrIgnoringAdd(s, enr, fail) ==
  LET entry == getWithPending(s.kbuckets, enr.nodeId)
      res == kbAdd(s.kbuckets, enr, "Disconnected")
      s1 == ApplyTable(s, res, fail)
  IN IF entry # NoEntry
     THEN [s EXCEPT !.kbuckets = kbUpdateValue(@, enr)]
     ELSE Emit(s1, Out("enrAdded", enr.nodeId, 0, 0, <<enr>>))

addEnr(s, enr, fail) ==
  LET entry == getWithPending(s.kbuckets, enr.nodeId)
      res == kbAdd(s.kbuckets, enr, "Disconnected")
      s1 == ApplyTable(s, res, fail)
  IN IF entry # NoEntry
     THEN [s EXCEPT !.kbuckets = kbUpdateValue(@, enr)]
     ELSE IF res.ok THEN Emit(s1, Out("enrAdded", enr.nodeId, 0, 0, <<enr>>)) ELSE s1

findNode(s, target, fail) ==
  LET lookupId == s.nextLookupId
      s1 == [s EXCEPT !.nextLookupId = IF @ >= LookupIdLimit THEN 1 ELSE @ + 1]
      knownClosestPeers == Ids(nearest(s1.kbuckets, target, KNearest))
      s2 == [s1 EXCEPT !.activeLookups[lookupId] = NewLookup(target, knownClosestPeers)]
  IN LookupStart(s2, lookupId, fail)

\* start() up to its await
startBegin(s) ==
  IF s.started THEN s ELSE [s EXCEPT !.attached = @ + 1]

\* stop() up to its await
stopBegin(s) ==
  IF ~s.started THEN s
  ELSE [s EXCEPT !.attached = IF @ > 0 THEN @ - 1 ELSE 0,
                 !.kbuckets = EmptyTable,
                 !.activeLookups = [l \in LookupIds |-> NoLookup],
                 !.nextLookupId = 1,
                 !.activeRequests = [i \in ReqIds |-> NoReq],
                 !.activeNodesResponses = [i \in ReqIds |-> NoAcc],
                 !.timers = [h \in Handles |->
                              IF \E n \in Remotes : s.connectedPeers[n] = h THEN 0 ELSE @[h]],
                 !.connectedPeers = [n \in Remotes |-> 0]]

(***************************************************************************)
(* Initial state: after the constructor                                    *)
(***************************************************************************)
NoPackets == [n |-> 0, total |-> 0, distance |-> -1, enrs |-> {}]

Init ==
  /\ started = FALSE
  /\ attached = 0
  /\ suspended = "none"
  /\ kbuckets = EmptyTable
  /\ activeLookups = [l \in LookupIds |-> NoLookup]
  /\ nextLookupId = 1
  /\ activeRequests = [i \in ReqIds |-> NoReq]
  /\ activeNodesResponses = [i \in ReqIds |-> NoAcc]
  /\ connectedPeers = [n \in Remotes |-> 0]
  /\ timers = [h \in Handles |-> 0]
  /\ nextReqId = 1
  /\ accepted = [i \in ReqIds |-> -1]
  /\ session = {}
  /\ respDone = [i \in ReqIds |-> 0]
  /\ failDone = [i \in ReqIds |-> 0]
  /\ nodesGot = [i \in ReqIds |-> NoPackets]

(***************************************************************************)
(* Actions, one per call or event, parameterised by its input.  The        *)
(* application awaits start() and stop() before its next lifecycle call;   *)
(* session events are handled while the handlers are attached.             *)
(***************************************************************************)
LiveLookups == {l \in LookupIds : activeLookups[l] # NoLookup}

\* start() after its await
startEnd(s) == [s EXCEPT !.started = TRUE]

\* stop() after its await
stopEnd(s) == [s EXCEPT !.started = FALSE]

Start ==
  /\ suspended = "none"
  /\ Commit(startBegin(Cur))
  /\ suspended' = IF started THEN "none" ELSE "start"
  /\ UNCHANGED <<session, nodesGot>>

StartDone ==
  /\ suspended = "start"
  /\ Commit(startEnd(Cur))
  /\ suspended' = "none"
  /\ UNCHANGED <<session, nodesGot>>

\* stop() up to its await; the session service, told to stop, drops its
\* sessions and pending requests
Stop ==
  /\ suspended = "none"
  /\ Commit([stopBegin(Cur) EXCEPT
               !.accepted = IF started THEN [i \in ReqIds |-> -1] ELSE @])
  /\ suspended' = IF started THEN "stop" ELSE "none"
  /\ session' = IF started THEN {} ELSE session
  /\ UNCHANGED nodesGot

StopDone ==
  /\ suspended = "stop"
  /\ Commit(stopEnd(Cur))
  /\ suspended' = "none"
  /\ UNCHANGED <<session, nodesGot>>

AddEnr(enr) ==
  /\ Commit(addEnr(Cur, enr, {}))
  /\ UNCHANGED <<suspended, session, nodesGot>>

FindNode(target, fail) ==
  /\ Cardinality(LiveLookups) < MaxLive
  /\ Commit(findNode(Cur, target, fail))
  /\ UNCHANGED <<suspended, session, nodesGot>>

Established(enr, fail) ==
  /\ attached > 0
  /\ Commit(onEstablished(Cur, enr, fail))
  /\ session' = session \cup {enr.nodeId}
  /\ UNCHANGED <<suspended, nodesGot>>

RecvPing(srcId, id, enrSeq, fail) ==
  /\ attached > 0
  /\ Commit(onPing(Cur, srcId, id, enrSeq, fail))
  /\ UNCHANGED <<suspended, session, nodesGot>>

\* the session service holds a request answered once its PONG, or a NODES
\* that announces no further packet, has come from the destination
Answered(t, srcId, id, final) ==
  IF final /\ t.accepted[id] = srcId THEN [t EXCEPT !.accepted[id] = -1] ELSE t

RecvPong(srcId, id, enrSeq, fail) ==
  /\ attached > 0
  /\ Commit(Answered(onPong(Cur, srcId, id, enrSeq, fail), srcId, id, TRUE))
  /\ UNCHANGED <<suspended, session, nodesGot>>

RecvFindNode(srcId, id, distance, fail) ==
  /\ attached > 0
  /\ Commit(onFindNode(Cur, srcId, id, distance, fail))
  /\ UNCHANGED <<suspended, session, nodesGot>>

NodesEvent(srcId, id, total, enrs, fail) ==
  /\ attached > 0
  /\ Commit(Answered(onNodes(Cur, srcId, id, total, enrs, fail), srcId, id, total <= 1))
  /\ UNCHANGED <<suspended, session>>

RecvNodes(srcId, id, total, enrs, fail) ==
  /\ NodesEvent(srcId, id, total, enrs, fail)
  /\ UNCHANGED nodesGot

WhoAreYou(srcId) ==
  /\ attached > 0
  /\ Commit(onWhoAreYouRequest(Cur, srcId))
  /\ UNCHANGED <<suspended, session, nodesGot>>

\* what the session service may report as failed: a request it accepted, or
\* one the registry never held (UnknownReqId)
MayFail(srcId, rpcId) ==
  /\ attached > 0
  /\ rpcId \in ReqIds => accepted[rpcId] = srcId

RequestFailed(srcId, rpcId, fail) ==
  /\ MayFail(srcId, rpcId)
  /\ Commit([onRequestFailed(Cur, srcId, rpcId, fail)
               EXCEPT !.accepted = [i \in ReqIds |-> IF i = rpcId THEN -1 ELSE @[i]]])
  /\ session' = session \ {srcId}
  /\ UNCHANGED <<suspended, nodesGot>>

\* an armed interval fires
TimerFire(h, fail) ==
  /\ timers[h] # 0
  /\ Commit(sendPing(Cur, timers[h], fail))
  /\ UNCHANGED <<suspended, session, nodesGot>>

(***************************************************************************)
(* Spec: every call and event, with one peer that has two versions of its  *)
(* record                                                                  *)
(***************************************************************************)
Peers == {8}
PeerEnrs == {Enr(8, 1), Enr(8, 2)}
\* the sends of one handler all succeed, or all throw
FailSets == {{}, Remotes}
\* 1: every remote node is at distance 4 of it; 8: the peer is the target itself
Targets == {1, 8}
\* id of the requests peers send us
IncomingIds == {7}
FindNodeDistances == {0, 4}
Totals == {1, 2, 3}
\* ENR lists of incoming NODES: empty, a newer record, a batch with our own
\* record and a repeated node id
NodesLists ==
  {<<>>, <<Enr(8, 2)>>, <<Enr(10, 1), Enr(LocalId, 1), Enr(10, 2)>>}

Next ==
  \/ Start \/ StartDone \/ Stop \/ StopDone
  \/ \E enr \in PeerEnrs : AddEnr(enr)
  \/ \E target \in Targets, fail \in FailSets : FindNode(target, fail)
  \/ \E enr \in PeerEnrs, fail \in FailSets : Established(enr, fail)
  \/ \E srcId \in Peers, id \in IncomingIds, enrSeq \in Seqs, fail \in FailSets :
       RecvPing(srcId, id, enrSeq, fail)
  \/ \E srcId \in Peers, id \in ReqIds, enrSeq \in Seqs, fail \in FailSets :
       RecvPong(srcId, id, enrSeq, fail)
  \/ \E srcId \in Peers, id \in IncomingIds, distance \in FindNodeDistances,
        fail \in FailSets :
       RecvFindNode(srcId, id, distance, fail)
  \/ \E srcId \in Peers, id \in ReqIds, total \in Totals, enrs \in NodesLists,
        fail \in FailSets :
       RecvNodes(srcId, id, total, enrs, fail)
  \/ \E srcId \in Peers : WhoAreYou(srcId)
  \/ \E srcId \in Peers, rpcId \in ReqIds \cup {UnknownReqId}, fail \in FailSets :
       RequestFailed(srcId, rpcId, fail)
  \/ \E h \in Handles, fail \in FailSets : TimerFire(h, fail)

Spec == Init /\ [][Next]_vars

(***************************************************************************)
(* Properties of the request registry                                      *)
(***************************************************************************)

\* C1: after onRequestFailed(srcId, rpcId) has been handled, activeRequests
\* holds no entry for rpcId, whatever the kind of the request and whether or
\* not a NODES accumulator existed for it.
C1_RemovedOnFailure ==
  \A srcId \in Peers, rpcId \in ReqIds, fail \in FailSets :
    LET t == onRequestFailed(Cur, srcId, rpcId, fail)
    IN (MayFail(srcId, rpcId) /\ ~t.ovf) => GetRequest(t, rpcId) = NoReq

\* C3: for each request id the kind-specific effect of a response (the
\* Discovered call of a NODES, the status update of a PONG) happens at most
\* once, and never both a processed response and a processed failure
\* (partial-result Discovered or lookup.onFailure).
C3_AtMostOneFinalized ==
  \A id \in ReqIds :
    /\ respDone[id] <= 1
    /\ ~(respDone[id] >= 1 /\ failDone[id] >= 1)

\* s with the registry entry of id removed, and nothing else changed
OnlyEntryRemoved(s, id) ==
  [s EXCEPT !.activeRequests = [i \in ReqIds |-> IF i = id THEN NoReq ELSE @[i]]]

\* C4: a PONG or NODES whose id is not registered, or is registered for a
\* request of the other kind, has no effect but the removal of the registry
\* entry: table, connectedPeers, lookups and what is emitted are unchanged.
C4_HandledOnlyIfKindsAgree ==
  \A srcId \in Peers, id \in ReqIds, fail \in FailSets :
    attached > 0 =>
      /\ \A enrSeq \in Seqs :
           LET t == onPong(Cur, srcId, id, enrSeq, fail)
           IN (~requestMatchesResponse(GetRequest(Cur, id).type, "PONG") /\ ~t.ovf)
                => t = OnlyEntryRemoved(Cur, id)
      /\ \A total \in Totals, enrs \in NodesLists :
           LET t == onNodes(Cur, srcId, id, total, enrs, fail)
           IN (~requestMatchesResponse(GetRequest(Cur, id).type, "NODES") /\ ~t.ovf)
                => t = OnlyEntryRemoved(Cur, id)

\* C5: an incoming FINDNODE(id, distance 0) is answered by exactly one
\* response, NODES(id, total 1, [local ENR]); nothing else is sent and the
\* routing table is unchanged.
C5_OneNodesForDistanceZero ==
  \A srcId \in Peers, id \in IncomingIds :
    attached > 0 =>
      LET t == onFindNode(Cur, srcId, id, 0, {})
      IN /\ t.out = <<Out("NODES", srcId, id, 1, <<LocalEnr>>)>>
         /\ t.kbuckets = kbuckets

\* every registry, the peer map and every interval empty, no handler attached
Cleared(s) ==
  /\ \A i \in ReqIds : s.activeRequests[i] = NoReq /\ s.activeNodesResponses[i] = NoAcc
  /\ \A l \in LookupIds : s.activeLookups[l] = NoLookup
  /\ \A n \in Remotes : s.connectedPeers[n] = 0
  /\ \A h \in Handles : s.timers[h] = 0
  /\ s.attached = 0

\* C6: after stop() completes on a started service the registries, the
\* lookups and connectedPeers are empty, no periodic ping timer is armed, no
\* handler is attached, and a further stop() changes nothing.
C6_StopClearsEverything ==
  (started /\ suspended = "none") =>
    LET t == stopEnd(stopBegin(Cur))
    IN Cleared(t) /\ stopEnd(stopBegin(t)) = t

\* C9: after onRequestFailed(A, rpcId) is handled, A's routing status is
\* Disconnected if A is in the table, A is not in connectedPeers, and no
\* periodic ping timer for A is armed.
C9_FailedPeerFullyDisconnected ==
  \A A \in Peers, rpcId \in ReqIds \cup {UnknownReqId}, fail \in FailSets :
    LET t == onRequestFailed(Cur, A, rpcId, fail)
        entry == getWithPending(t.kbuckets, A)
    IN (MayFail(A, rpcId) /\ ~t.ovf) =>
         /\ entry # NoEntry => entry.status = "Disconnected"
         /\ t.connectedPeers[A] = 0
         /\ \A h \in Handles : t.timers[h] # A

(***************************************************************************)
(* BucketSpec: sessions with more peers than a bucket holds.  The          *)
(* application loads the records of 8 .. 11, which fill the one bucket     *)
(* they share, then starts the service; sessions are established with a    *)
(* listed node and with two nodes the bucket has no room for.  No send     *)
(* throws.                                                                 *)
(***************************************************************************)
BucketNodes == 8 .. (7 + BucketSize)
BucketPeers == {8, 12, 13}
Loaded == Cardinality(TableIds(kbuckets))

BucketNext ==
  \/ \E n \in BucketNodes :
       /\ ~started /\ attached = 0
       /\ n = 8 + Loaded
       /\ AddEnr(Enr(n, 1))
  \/ Loaded = BucketSize /\ Start
  \/ StartDone
  \/ \E n \in BucketPeers : Established(Enr(n, 1), {})
  \/ \E srcId \in BucketPeers, id \in ReqIds : RecvPong(srcId, id, 1, {})
  \/ \E srcId \in BucketPeers, rpcId \in ReqIds \cup {UnknownReqId} :
       RequestFailed(srcId, rpcId, {})
  \/ \E h \in Handles : TimerFire(h, {})

BucketSpec == Init /\ [][BucketNext]_vars

Status(kb, n) == getWithPending(kb, n).status

\* C8: in every reachable state a node is a key of connectedPeers if and
\* only if it has an active session (established, and no requestFailed
\* since) and its latest routing status is Connected.
C8_ConnectedPeerIffSessionAndConnected ==
  \A n \in Remotes :
    connectedPeers[n] # 0 <=> (n \in session /\ Status(kbuckets, n) = "Connected")

\* the positions of t.out where a PING to nodeId was sent
PingsTo(t, nodeId) ==
  {i \in 1 .. Len(t.out) : t.out[i].ev = "PING" /\ t.out[i].node = nodeId}

\* C10: handling established(enr) sends exactly one PING to enr's node,
\* registered in activeRequests, sets the node's routing status to
\* Connected, and arms a 300 s periodic ping timer kept under its node id in
\* connectedPeers, whatever the routing table held, a full bucket included.
C10_EstablishedPingsAndArms ==
  \A n \in BucketPeers :
    LET t == onEstablished(Cur, Enr(n, 1), {})
        h == t.connectedPeers[n]
    IN (attached > 0 /\ ~t.ovf) =>
         /\ Cardinality(PingsTo(t, n)) = 1
         /\ \A i \in PingsTo(t, n) : GetRequest(t, t.out[i].id).type = "PING"
         /\ Status(t.kbuckets, n) = "Connected"
         /\ h \in Handles /\ t.timers[h] = n
         /\ \E i \in 1 .. Len(t.out) : t.out[i] = Out("setInterval", n, h, 300 * 1000, <<>>)

(***************************************************************************)
(* NodesSpec: lookups whose FINDNODE is answered in several NODES packets. *)
(* nodesGot keeps, per request id, what has been received for a FINDNODE   *)
(* request: the number of packets, the total they declare (0 once two      *)
(* packets disagree), the distance requested and the records at that       *)
(* distance.  Packets past the declared total are not counted.             *)
(***************************************************************************)
AtDistance(enrs, distance) ==
  {enrs[i] : i \in {j \in 1 .. Len(enrs) : log2Distance(enrs[j].nodeId, LocalId) = distance}}

NodesTrack(g, req, total, enrs) ==
  IF g = NoPackets
  THEN IF req.type = "FINDNODE"
       THEN [n |-> 1, total |-> total, distance |-> req.distance,
             enrs |-> AtDistance(enrs, req.distance)]
       ELSE g
  ELSE IF g.n >= g.total THEN g
  ELSE [g EXCEPT !.n = @ + 1,
                 !.total = IF total = @ THEN @ ELSE 0,
                 !.enrs = @ \cup AtDistance(enrs, g.distance)]

RecvNodesTracked(srcId, id, total, enrs, fail) ==
  /\ NodesEvent(srcId, id, total, enrs, fail)
  /\ nodesGot' = [nodesGot EXCEPT ![id] = NodesTrack(@, GetRequest(Cur, id), total, enrs)]

MultiTotals == {2, 3}

NodesNext ==
  \/ Start \/ StartDone
  \/ \E enr \in PeerEnrs : AddEnr(enr)
  \/ \E target \in Targets : FindNode(target, {})
  \/ \E srcId \in Peers, id \in ReqIds, total \in MultiTotals, enrs \in NodesLists :
       RecvNodesTracked(srcId, id, total, enrs, {})
  \/ \E srcId \in Peers, rpcId \in ReqIds : RequestFailed(srcId, rpcId, {})

NodesSpec == Init /\ [][NodesNext]_vars

DiscoveredCalls(t) ==
  SelectSeq(t.out, LAMBDA o : o.ev = "Discovered")

\* C2: a registered FINDNODE request answered by t NODES packets that all
\* declare total = t (1 < t <= 5): no Discovered call before the t-th packet,
\* exactly one on the t-th packet, with the records at the requested distance
\* of all t packets, and then no entry for the id in activeRequests and
\* activeNodesResponses.
C2_MultiPacketReassembly ==
  \A srcId \in Peers, id \in ReqIds, total \in MultiTotals, enrs \in NodesLists :
    LET g == nodesGot[id]
        req == GetRequest(Cur, id)
        first == g = NoPackets /\ req.type = "FINDNODE"
        next == g.n >= 1 /\ g.n < g.total /\ g.total = total
        distance == IF first THEN req.distance ELSE g.distance
        t == onNodes(Cur, srcId, id, total, enrs, {})
        calls == DiscoveredCalls(t)
    IN (attached > 0 /\ (first \/ next) /\ ~t.ovf) =>
         IF g.n + 1 < total
         THEN calls = <<>>
         ELSE /\ Len(calls) = 1
              /\ {calls[1].enrs[i] : i \in 1 .. Len(calls[1].enrs)}
                   = g.enrs \cup AtDistance(enrs, distance)
              /\ GetRequest(t, id) = NoReq
              /\ GetNodesResponse(t, id) = NoAcc

(***************************************************************************)
(* LookupSpec: lookups on a service that is started and never stopped.     *)
(* The session service eventually answers, or reports as failed, every     *)
(* request it accepted and still holds.                                    *)
(***************************************************************************)
Deliver ==
  \E id \in ReqIds :
    /\ accepted[id] \in Remotes
    /\ \/ RequestFailed(accepted[id], id, {})
       \/ \E enrs \in NodesLists : RecvNodes(accepted[id], id, 1, enrs, {})
       \/ \E enrSeq \in Seqs : RecvPong(accepted[id], id, enrSeq, {})

LookupNext ==
  \/ Start \/ StartDone
  \/ \E enr \in PeerEnrs : AddEnr(enr)
  \/ \E target \in Targets, fail \in FailSets : started /\ FindNode(target, fail)
  \/ \E enr \in PeerEnrs : Established(enr, {})
  \/ \E h \in Handles : TimerFire(h, {})
  \/ Deliver

LookupSpec == Init /\ [][LookupNext]_vars /\ WF_vars(Deliver)

\* C7: every findNode(target) call eventually resolves: its lookup emits
\* finished and is removed from activeLookups, also when a probe to a
\* selected peer could not be sent.
C7_FindNodeResolves ==
  \A l \in LookupIds : (activeLookups[l] # NoLookup) ~> (activeLookups[l] = NoLookup)

(***************************************************************************)
(* CapSpec: NODES responses that announce more packets than the core       *)
(* accepts, for FINDNODE requests of lookups and for the PING requests of  *)
(* established sessions.                                                   *)
(***************************************************************************)
CapTotals == {2, MaxNodesResponses + 1}

CapNext ==
  \/ Start \/ StartDone
  \/ \E enr \in PeerEnrs : AddEnr(enr)
  \/ \E target \in Targets : FindNode(target, {})
  \/ \E enr \in PeerEnrs : Established(enr, {})
  \/ \E srcId \in Peers, id \in ReqIds, total \in CapTotals, enrs \in NodesLists :
       RecvNodesTracked(srcId, id, total, enrs, {})
  \/ \E srcId \in Peers, rpcId \in ReqIds : RequestFailed(srcId, rpcId, {})

CapSpec == Init /\ [][CapNext]_vars

Min(a, b) == IF a <= b THEN a ELSE b

\* C11: every partial NODES accumulator has count <= min(total, 5), and at
\* most 5 NODES packets are accepted for one request id: with total > 5 the
\* response is finalized on the 5th packet, the registry entry is gone, and
\* a later packet with that id is dropped without effect.
C11_AtMostFivePackets ==
  /\ \A id \in ReqIds : activeNodesResponses[id].count <= MaxNodesResponses
  /\ \A srcId \in Peers, id \in ReqIds, total \in CapTotals, enrs \in NodesLists :
       LET g == nodesGot[id]
           first == g = NoPackets /\ GetRequest(Cur, id).type = "FINDNODE"
           next == g.n >= 1 /\ g.total = total
           t == onNodes(Cur, srcId, id, total, enrs, {})
           acc == GetNodesResponse(t, id)
       IN (attached > 0 /\ ~t.ovf) =>
            /\ acc # NoAcc => acc.count <= Min(total, MaxNodesResponses)
            /\ (next /\ total > MaxNodesResponses /\ g.n + 1 = MaxNodesResponses) =>
                 /\ Len(DiscoveredCalls(t)) = 1
                 /\ GetRequest(t, id) = NoReq
                 /\ acc = NoAcc
            /\ (next /\ total > MaxNodesResponses /\ g.n + 1 > MaxNodesResponses) =>
                 t = Cur

(***************************************************************************)
(* IdSpec: any number of findNode calls, also while earlier lookups are    *)
(* still live, so that the id counter wraps under live lookups.            *)
(* LookupIdLimit stands for 2^32.                                          *)
(***************************************************************************)
FindNodeAny(target, fail) ==
  /\ Commit(findNode(Cur, target, fail))
  /\ UNCHANGED <<suspended, session, nodesGot>>

IdNext ==
  \/ Start \/ StartDone
  \/ \E enr \in PeerEnrs : AddEnr(enr)
  \/ \E target \in Targets, fail \in FailSets : started /\ FindNodeAny(target, fail)
  \/ \E srcId \in Peers, rpcId \in ReqIds : RequestFailed(srcId, rpcId, {})

IdSpec == Init /\ [][IdNext]_vars

\* C12: all live lookups have distinct ids: the id the next findNode call
\* assigns is never a key of activeLookups, also after the counter wrapped,
\* so no live lookup is overwritten.
C12_FreshLookupId ==
  LET lookupId == nextLookupId
  IN GetLookup(Cur, lookupId) = NoLookup

\* C13: the ids assigned by successive findNode calls start at 1, grow by
\* exactly 1 per call, are never 0 and wrap to 1 when the next value would
\* reach the limit, so every assigned id lies in 1 .. limit - 1.
C13_LookupIdSequence ==
  /\ nextLookupId \in 1 .. LookupIdLimit - 1
  /\ \A target \in Targets, fail \in FailSets :
       LET t == findNode(Cur, target, fail)
       IN ~t.ovf =>
            t.nextLookupId = IF nextLookupId + 1 = LookupIdLimit THEN 1
                             ELSE nextLookupId + 1

(***************************************************************************)
(* AddSpec: BucketSpec, and the application adding records, old and new,   *)
(* of listed, pending and unknown nodes while the service runs.            *)
(***************************************************************************)
AddNext ==
  \/ BucketNext
  \/ \E n \in BucketPeers, q \in Seqs, fail \in FailSets :
       /\ started
       /\ Commit(addEnr(Cur, Enr(n, q), fail))
       /\ UNCHANGED <<suspended, session, nodesGot>>

AddSpec == Init /\ [][AddNext]_vars

EnrAddedEvents(t) == SelectSeq(t.out, LAMBDA o : o.ev = "enrAdded")

\* C14: addEnr(e) for a node already in the table (bucket or pending slot)
\* emits no enrAdded and leaves the entry's status; with e.seq equal to the
\* stored seq the table is unchanged, with e.seq greater the stored record
\* becomes e.  For an absent node enrAdded(e) is emitted if and only if the
\* record was inserted into the bucket proper.
C14_AddEnrFrame ==
  \A n \in BucketPeers, q \in Seqs, fail \in FailSets :
    LET e == Enr(n, q)
        entry == getWithPending(kbuckets, n)
        t == addEnr(Cur, e, fail)
        after == getWithPending(t.kbuckets, n)
    IN ~t.ovf =>
         IF entry # NoEntry
         THEN /\ EnrAddedEvents(t) = <<>>
              /\ after.status = entry.status
              /\ e.seq = entry.seq => t.kbuckets = kbuckets
              /\ e.seq > entry.seq => ValueOf(after) = e
         ELSE /\ InBucket(t.kbuckets, n) =>
                   EnrAddedEvents(t) = <<Out("enrAdded", n, 0, 0, <<e>>)>>
              /\ ~InBucket(t.kbuckets, n) => EnrAddedEvents(t) = <<>>

\* a pending node whose record was replaced by a newer one given to addEnr,
\* its status kept, in a full bucket
C14_Witness ==
  \E n \in BucketPeers :
    /\ InPending(kbuckets, n)
    /\ getWithPending(kbuckets, n) = EntryOf(Enr(n, 2), "Connected")
    /\ Loaded = BucketSize

(***************************************************************************)
(* Answers to FINDNODE                                                     *)
(***************************************************************************)
RECURSIVE ConcatEnrs(_)
\* the ENR lists of the messages of out, concatenated in send order
ConcatEnrs(out) ==
  IF out = <<>> THEN <<>> ELSE Head(out).enrs \o ConcatEnrs(Tail(out))

\* C15: an incoming FINDNODE(id, d), d # 0, with n records at distance d is
\* answered by exactly max(1, ceil(n / nodesPerPacket)) NODES messages
\* (nodesPerPacket = 3), each with the same id, a total equal to that number
\* and at most nodesPerPacket records, whose ENR lists concatenate to
\* valuesOfDistance(d); for n = 0 that is a single NODES(id, total 1, []).
C15_NodesPackets ==
  \A srcId \in Peers, id \in IncomingIds, d \in Distances :
    LET t == onFindNode(Cur, srcId, id, d, {})
        nodes == valuesOfDistance(kbuckets, d)
        packets == (Len(nodes) + nodesPerPacket - 1) \div nodesPerPacket
        k == IF packets < 1 THEN 1 ELSE packets
    IN attached > 0 =>
         /\ nodesPerPacket = 3
         /\ Len(t.out) = k
         /\ \A i \in 1 .. Len(t.out) :
              /\ t.out[i].ev = "NODES" /\ t.out[i].node = srcId /\ t.out[i].id = id
              /\ t.out[i].n = k
              /\ Len(t.out[i].enrs) <= nodesPerPacket
         /\ ConcatEnrs(t.out) = nodes

(***************************************************************************)
(* DiscoveredSpec: discovered called with any source, batch and lookup id  *)
(* while lookups are live.                                                 *)
(***************************************************************************)
Discovered(srcId, enrs, lookupId) ==
  /\ attached > 0
  /\ Commit(discovered(Cur, srcId, enrs, lookupId, {}))
  /\ UNCHANGED <<suspended, session, nodesGot>>

DiscoveredNext ==
  \/ Start \/ StartDone
  \/ \E enr \in PeerEnrs : AddEnr(enr)
  \/ \E target \in Targets : started /\ FindNode(target, {})
  \/ \E srcId \in Peers, enrs \in NodesLists, lookupId \in LookupIds \cup {0} :
       Discovered(srcId, enrs, lookupId)
  \/ \E srcId \in Peers, rpcId \in ReqIds : RequestFailed(srcId, rpcId, {})

DiscoveredSpec == Init /\ [][DiscoveredNext]_vars

\* C16: no live lookup's untrustedEnrs holds two entries with the same node
\* id, and it never holds the local node's record.
C16_UntrustedEnrsDistinct ==
  \A l \in LookupIds :
    LET u == activeLookups[l].untrustedEnrs
    IN /\ \A i, j \in 1 .. Len(u) : i # j => u[i].nodeId # u[j].nodeId
       /\ \A i \in 1 .. Len(u) : u[i].nodeId # LocalId

\* a live lookup that was given a batch repeating a node id next to the local
\* record, and then another batch
C16_Witness ==
  \E l \in LookupIds :
    activeLookups[l].untrustedEnrs = <<Enr(10, 1), Enr(8, 2)>>

(***************************************************************************)
(* Failure of a partly answered FINDNODE                                   *)
(***************************************************************************)
OnFailureCalls(t, nodeId) ==
  SelectSeq(t.out, LAMBDA o : o.ev = "onFailure" /\ o.node = nodeId)

\* C17: when requestFailed arrives for a registered FINDNODE request after
\* some but not all of its NODES packets: if those packets carried records
\* at the requested distance, exactly those records are handed to
\* Discovered; if no packet was received and the request belongs to a live
\* lookup, lookup.onFailure(srcId) is called instead.
C17_PartialResultsKept ==
  \A srcId \in Peers, rpcId \in ReqIds :
    LET g == nodesGot[rpcId]
        req == GetRequest(Cur, rpcId)
        t == onRequestFailed(Cur, srcId, rpcId, {})
        calls == DiscoveredCalls(t)
    IN (MayFail(srcId, rpcId) /\ ~t.ovf) =>
         /\ (g.n >= 1 /\ g.n < g.total /\ g.enrs # {}) =>
              /\ Len(calls) = 1
              /\ {calls[1].enrs[i] : i \in 1 .. Len(calls[1].enrs)} = g.enrs
         /\ (g.n = 0 /\ req.type = "FINDNODE" /\ GetLookup(Cur, req.lookupId) # NoLookup) =>
              /\ calls = <<>>
              /\ Len(OnFailureCalls(t, srcId)) = 1

(***************************************************************************)
(* Refreshing a peer's record                                              *)
(***************************************************************************)

\* C18: a PONG answering a registered PING, from a peer whose stored record
\* has seq < enrSeq, registers a FINDNODE(distance 0) to that peer; when the
\* peer answers it with NODES(total 1, [its newer record]), that record
\* reaches Discovered and replaces the peer's record in the routing table.
C18_EnrRefreshThroughPong ==
  \A srcId \in Peers, id \in ReqIds :
    LET req == GetRequest(Cur, id)
        stored == getValue(kbuckets, srcId)
    IN attached > 0 =>
         /\ \A enrSeq \in Seqs :
              LET t == onPong(Cur, srcId, id, enrSeq, {})
              IN (req.type = "PING" /\ accepted[id] = srcId /\ stored # NoENR
                    /\ stored.seq < enrSeq /\ ~t.ovf) =>
                   \E i \in 1 .. Len(t.out) :
                     /\ t.out[i].ev = "FINDNODE" /\ t.out[i].node = srcId /\ t.out[i].n = 0
                     /\ GetRequest(Cur, t.out[i].id) = NoReq
                     /\ GetRequest(t, t.out[i].id) = Request("FINDNODE", 0, 0)
         /\ \A q \in Seqs :
              LET t == onNodes(Cur, srcId, id, 1, <<Enr(srcId, q)>>, {})
                  calls == DiscoveredCalls(t)
              IN (req = Request("FINDNODE", 0, 0) /\ accepted[id] = srcId /\ stored # NoENR
                    /\ stored.seq < q /\ ~t.ovf) =>
                   /\ Len(calls) = 1 /\ calls[1].enrs = <<Enr(srcId, q)>>
                   /\ getValue(t.kbuckets, srcId) = Enr(srcId, q)

(***************************************************************************)
(* Requests that could not be sent                                         *)
(***************************************************************************)
\* destinations of a request: the peer, and a node the table never holds
Destinations == Peers \cup {9}

\* C19: when the session service's send throws, or no ENR for the
\* destination is in the routing table, sendRequest records no entry in
\* activeRequests and changes nothing else, and the handler that asked for
\* the send runs to its end; an entry is recorded only with a send that did
\* not throw.
C19_FailedSendLeavesNoEntry ==
  /\ \A nodeId \in Destinations, type \in {"PING", "FINDNODE"}, fail \in FailSets :
       LET t == sendRequest(Cur, nodeId, type, 0, 0, fail)
           sent == SelectSeq(t.out, LAMBDA o : o.ev = type /\ o.node = nodeId)
       IN ~t.ovf =>
            IF getValue(kbuckets, nodeId) = NoENR \/ nodeId \in fail
            THEN t = Cur
            ELSE /\ Len(sent) = 1
                 /\ GetRequest(Cur, sent[1].id) = NoReq
                 /\ \A i \in ReqIds :
                      t.activeRequests[i] =
                        IF i = sent[1].id THEN Request(type, 0, 0) ELSE activeRequests[i]
  /\ \A enr \in PeerEnrs :
       LET t == onEstablished(Cur, enr, Remotes)
       IN (attached > 0 /\ ~t.ovf) =>
            /\ t.activeRequests = activeRequests
            /\ t.connectedPeers[enr.nodeId] \in Handles
            /\ t.timers[t.connectedPeers[enr.nodeId]] = enr.nodeId

\* a session was established with a listed peer while every send threw: the
\* timer is armed and no request was ever registered
C19_Witness ==
  \E n \in Peers :
    /\ getValue(kbuckets, n) # NoENR
    /\ connectedPeers[n] # 0
    /\ nextReqId = 1
    /\ \A i \in ReqIds : activeRequests[i] = NoReq

(***************************************************************************)
(* Sequence numbers of stored records                                      *)
(***************************************************************************)
\* no node listed in s and in t has a lower seq in t
SeqNotLowered(s, t) ==
  \A n \in Remotes :
    LET old == getWithPending(s.kbuckets, n)
        new == getWithPending(t.kbuckets, n)
    IN (old # NoEntry /\ new # NoEntry) => new.seq >= old.seq

\* C20: the seq of the record stored for a node never decreases over addEnr
\* calls, established events and Discovered calls: a record with a lower seq
\* never replaces a stored record with a higher seq.
C20_SeqNeverDecreases ==
  \A enr \in PeerEnrs, srcId \in Peers, fail \in FailSets :
    LET a == addEnr(Cur, enr, fail)
        e == onEstablished(Cur, enr, fail)
        d == discovered(Cur, srcId, <<enr>>, 0, fail)
    IN /\ ~a.ovf => SeqNotLowered(Cur, a)
       /\ (attached > 0 /\ ~e.ovf) => SeqNotLowered(Cur, e)
       /\ (attached > 0 /\ ~d.ovf) => SeqNotLowered(Cur, d)

(***************************************************************************)
(* Accumulators and their requests                                         *)
(***************************************************************************)
\* C21: in every reachable state every key of activeNodesResponses is a key
\* of activeRequests: no partial NODES accumulator outlives its request
\* entry, whatever NODES, PONG and requestFailed events carry its id.
C21_AccumulatorHasRequest ==
  \A id \in ReqIds :
    GetNodesResponse(Cur, id) # NoAcc => GetRequest(Cur, id) # NoReq

(***************************************************************************)
(* LifecycleSpec: start() and stop() called without awaiting the earlier   *)
(* call.  suspended names the calls that await the session service; each   *)
(* resumes on its own.  A session event reaches the core's listener once   *)
(* per attachment.                                                         *)
(***************************************************************************)
MaxCalls == 2
MaxAttached == 2

\* how many start() and stop() calls are suspended at their await
PendingOf(susp) ==
  CASE susp = "none"        -> [start |-> 0, stop |-> 0]
    [] susp = "start"       -> [start |-> 1, stop |-> 0]
    [] susp = "stop"        -> [start |-> 0, stop |-> 1]
    [] susp = "start+start" -> [start |-> 2, stop |-> 0]
    [] susp = "start+stop"  -> [start |-> 1, stop |-> 1]
    [] susp = "stop+stop"   -> [start |-> 0, stop |-> 2]

SuspendedAs(p) ==
  CASE p.start = 0 /\ p.stop = 0 -> "none"
    [] p.start = 1 /\ p.stop = 0 -> "start"
    [] p.start = 0 /\ p.stop = 1 -> "stop"
    [] p.start = 2 /\ p.stop = 0 -> "start+start"
    [] p.start = 1 /\ p.stop = 1 -> "start+stop"
    [] p.start = 0 /\ p.stop = 2 -> "stop+stop"

Pending == PendingOf(suspended)

\* start() up to its await, whatever other call is suspended
StartCall ==
  /\ started \/ (Pending.start + Pending.stop < MaxCalls /\ attached < MaxAttached)
  /\ Commit(startBegin(Cur))
  /\ suspended' = IF started THEN suspended
                  ELSE SuspendedAs([Pending EXCEPT !.start = @ + 1])
  /\ UNCHANGED <<session, nodesGot>>

\* a suspended start() resumes after sessionService.start()
StartResume ==
  /\ Pending.start > 0
  /\ Commit(startEnd(Cur))
  /\ suspended' = SuspendedAs([Pending EXCEPT !.start = @ - 1])
  /\ UNCHANGED <<session, nodesGot>>

\* stop() up to its await, whatever other call is suspended
StopCall ==
  /\ ~started \/ Pending.start + Pending.stop < MaxCalls
  /\ Commit([stopBegin(Cur) EXCEPT
               !.accepted = IF started THEN [i \in ReqIds |-> -1] ELSE @])
  /\ suspended' = IF started THEN SuspendedAs([Pending EXCEPT !.stop = @ + 1])
                  ELSE suspended
  /\ session' = IF started THEN {} ELSE session
  /\ UNCHANGED nodesGot

\* a suspended stop() resumes after sessionService.stop()
StopResume ==
  /\ Pending.stop > 0
  /\ Commit(stopEnd(Cur))
  /\ suspended' = SuspendedAs([Pending EXCEPT !.stop = @ - 1])
  /\ UNCHANGED <<session, nodesGot>>

RECURSIVE DispatchEstablished(_, _, _, _)
\* an established event reaches onEstablished once per attachment
DispatchEstablished(s, enr, times, fail) ==
  IF times = 0 \/ s.ovf THEN s
  ELSE DispatchEstablished(onEstablished(s, enr, fail), enr, times - 1, fail)

EstablishedEvent(enr, fail) ==
  /\ attached > 0
  /\ Commit(DispatchEstablished(Cur, enr, attached, fail))
  /\ session' = session \cup {enr.nodeId}
  /\ UNCHANGED <<suspended, nodesGot>>

LifecycleNext ==
  \/ StartCall \/ StartResume \/ StopCall \/ StopResume
  \/ \E enr \in PeerEnrs, fail \in FailSets : EstablishedEvent(enr, fail)
  \/ \E h \in Handles, fail \in FailSets : TimerFire(h, fail)

LifecycleSpec == Init /\ [][LifecycleNext]_vars

\* the intervals armed while one established event is handled
IntervalsArmed(t) == Len(SelectSeq(t.out, LAMBDA o : o.ev = "setInterval"))

\* C22: under every interleaving of start() and stop() calls, a second call
\* issued while an earlier one is suspended included, the six handlers are
\* attached at most once, so an event is handled at most once (one
\* established event arms at most one interval), and once stop() has
\* completed with no call pending no handler is attached.
C22_HandlersAttachedOnce ==
  /\ attached <= 1
  /\ \A enr \in PeerEnrs :
       LET t == DispatchEstablished(Cur, enr, attached, {})
       IN ~t.ovf => IntervalsArmed(t) <= 1
  /\ (suspended = "none" /\ ~started) => attached = 0

=============================================================================
